---------------------------- MODULE Spec2Model ----------------------------
(***************************************************************************)
(* A model of dark-wing/rotatelog: a leveled logger that rotates its       *)
(* output file on a time cadence, compresses the archives and sweeps the   *)
(* old ones.  Two revisions of the Logger are modelled side by side:       *)
(*   - src/log.go            (Rotate / StartRotate / Stop / compress /     *)
(*                            cleanOldLogs), and                           *)
(*   - src/unnamed/part_001  (rotate / doRotate / compress with the        *)
(*                            single-flight flag / deleteOverdue).         *)
(* File names are sequences of one-character strings, times are seconds    *)
(* since the Unix epoch (time.Local is taken to be UTC).                   *)
(***************************************************************************)
EXTENDS Integers, Sequences, FiniteSets, TLC

-----------------------------------------------------------------------------
(* Text: digits, layouts, the calendar (Go's time.Format / time.Parse).    *)

DigitChars == <<"0", "1", "2", "3", "4", "5", "6", "7", "8", "9">>

DigitSet == {"0", "1", "2", "3", "4", "5", "6", "7", "8", "9"}

IsDigit(c) == c \in DigitSet

DigitVal(c) == (CHOOSE i \in 1..10 : DigitChars[i] = c) - 1

Pow10(k) == IF k = 0 THEN 1 ELSE IF k = 1 THEN 10 ELSE IF k = 2 THEN 100 ELSE 1000

\* n rendered as exactly w decimal digits (w <= 4), zero padded.
Digits(n, w) == [i \in 1..w |-> DigitChars[((n \div Pow10(w - i)) % 10) + 1]]

\* The number a sequence of digit characters denotes.
RECURSIVE Num(_)
Num(s) == IF s = <<>> THEN 0
          ELSE Num(SubSeq(s, 1, Len(s) - 1)) * 10 + DigitVal(s[Len(s)])

formatDay == "20060102"
formatHour == "2006010215"
formatMin == "200601021504"
formatSec == "20060102150405"

\* len(l.suffixFormat)
LayoutLen(layout) ==
    CASE layout = formatDay -> 8
      [] layout = formatHour -> 10
      [] layout = formatMin -> 12
      [] layout = formatSec -> 14
      [] OTHER -> 0

IsLeap(y) == (y % 4 = 0 /\ y % 100 # 0) \/ y % 400 = 0

DaysIn(m, y) ==
    IF m = 2 THEN (IF IsLeap(y) THEN 29 ELSE 28)
    ELSE IF m \in {4, 6, 9, 11} THEN 30 ELSE 31

\* Days from 1970-01-01 to the civil date y-m-d.
DaysFromCivil(y, m, d) ==
    LET yy == IF m <= 2 THEN y - 1 ELSE y
        era == yy \div 400
        yoe == yy - era * 400
        mp == IF m > 2 THEN m - 3 ELSE m + 9
        doy == (153 * mp + 2) \div 5 + d - 1
        doe == yoe * 365 + yoe \div 4 - yoe \div 100 + doy
    IN era * 146097 + doe - 719468

\* The civil date of a day number.
CivilFromDays(z0) ==
    LET z == z0 + 719468
        era == z \div 146097
        doe == z - era * 146097
        yoe == (doe - doe \div 1460 + doe \div 36524 - doe \div 146096) \div 365
        doy == doe - (365 * yoe + yoe \div 4 - yoe \div 100)
        mp == (5 * doy + 2) \div 153
        d == doy - (153 * mp + 2) \div 5 + 1
        m == IF mp < 10 THEN mp + 3 ELSE mp - 9
        y == yoe + era * 400 + (IF m <= 2 THEN 1 ELSE 0)
    IN [y |-> y, m |-> m, d |-> d]

SecondsPerDay == 24 * 60 * 60

\* t.Format(layout) for the four digit-only layouts.
Format(t, layout) ==
    LET days == t \div SecondsPerDay
        rem == t % SecondsPerDay
        c == CivilFromDays(days)
        ymd == Digits(c.y, 4) \o Digits(c.m, 2) \o Digits(c.d, 2)
        hh == Digits(rem \div 3600, 2)
        mm == Digits((rem % 3600) \div 60, 2)
        ss == Digits(rem % 60, 2)
    IN CASE layout = formatDay -> ymd
         [] layout = formatHour -> ymd \o hh
         [] layout = formatMin -> ymd \o hh \o mm
         [] layout = formatSec -> ymd \o hh \o mm \o ss
         [] OTHER -> <<>>

\* time.ParseInLocation(layout, ts, time.Local): every field is read at its
\* fixed width and range checked; a field out of range is an error.
Parse(layout, ts) ==
    LET n == LayoutLen(layout)
        Field(a, b) == IF b <= n THEN Num(SubSeq(ts, a, b)) ELSE 0
        y == Field(1, 4)
        m == Field(5, 6)
        d == Field(7, 8)
        hh == Field(9, 10)
        mi == Field(11, 12)
        ss == Field(13, 14)
        ok == /\ n > 0
              /\ Len(ts) = n
              /\ \A i \in 1..Len(ts) : IsDigit(ts[i])
              /\ m \in 1..12
              /\ d >= 1
              /\ d <= DaysIn(m, y)
              /\ hh < 24
              /\ mi < 60
              /\ ss < 60
    IN IF ok
       THEN [ok |-> TRUE,
             t |-> DaysFromCivil(y, m, d) * SecondsPerDay + hh * 3600 + mi * 60 + ss]
       ELSE [ok |-> FALSE, t |-> 0]

\* Seconds from the zero time.Time (0001-01-01) to the Unix epoch, modulo d:
\* 719162 days of 86400 seconds.
ZeroOffsetMod(d) == ((719162 % d) * (SecondsPerDay % d)) % d

\* t.Truncate(d): t rounded down to a multiple of d since the zero time.
Truncate(t, d) ==
    IF d <= 0 THEN t ELSE t - (((t % d) + ZeroOffsetMod(d)) % d)

\* time.Duration saturates; the age of the zero time.Time is the largest
\* Duration, which exceeds every retention window of the model.
MaxDuration == 2147483647 + 0

-----------------------------------------------------------------------------
(* Paths and the directory.                                                *)

\* filepath.Dir of a clean path: what precedes the last separator.
Dir(p) ==
    LET seps == {i \in 1..Len(p) : p[i] = "/"}
    IN IF seps = {} THEN <<".">>
       ELSE SubSeq(p, 1, (CHOOSE i \in seps : \A k \in seps : k <= i) - 1)

GzExt == <<".", "g", "z">>

\* regexp [0-9]{n}: the leftmost run of n digits of s, or the empty string.
FindDigits(s, n) ==
    LET digits == {i \in 1..Len(s) : IsDigit(s[i])}
        starts == {i \in 1..(Len(s) - n + 1) :
                     \A k \in 0..(n - 1) : (i + k) \in digits}
    IN IF n = 0 \/ starts = {} THEN <<>>
       ELSE LET i == CHOOSE a \in starts : \A c \in starts : a <= c
            IN SubSeq(s, i, i + n - 1)

\* regexp [0-9]{n}\.gz: the leftmost run of n digits followed by ".gz".
FindDigitsGz(s, n) ==
    LET m == n + Len(GzExt)
        digits == {i \in 1..Len(s) : IsDigit(s[i])}
        starts == {i \in 1..(Len(s) - m + 1) :
                     /\ \A k \in 0..(n - 1) : (i + k) \in digits
                     /\ SubSeq(s, i + n, i + m - 1) = GzExt}
    IN IF n = 0 \/ starts = {} THEN <<>>
       ELSE LET i == CHOOSE a \in starts : \A c \in starts : a <= c
            IN SubSeq(s, i, i + m - 1)

(* A path is held by its parts: the directory, the base name, the stamp    *)
(* that follows it and the .gz extension.  A stamp is held as the time it  *)
(* renders and the layout that renders it; PathString is the path's text,  *)
(* which is what the patterns and the parser read.                         *)

NoStamp == [t |-> 0, layout |-> ""]

\* The digits of the stamp that names month 99.
BadStampDigits == <<"2", "0", "2", "4", "9", "9", "0", "1", "0", "0", "0", "0", "0", "0">>
BadStamp == [t |-> 0, layout |-> "bad"]

\* t.Format(layout), held as a stamp: times that render alike are one stamp.
Stamp(t, layout) ==
    IF LayoutLen(layout) = 0 THEN NoStamp
    ELSE [t |-> Parse(layout, Format(t, layout)).t, layout |-> layout]

StampString(st) ==
    IF st.layout = "" THEN <<>>
    ELSE IF st.layout = "bad" THEN BadStampDigits
    ELSE Format(st.t, st.layout)

PathString(p) ==
    p.dir \o <<"/", p.base>>
    \o (IF p.stamp = NoStamp THEN <<>> ELSE <<".">> \o StampString(p.stamp))
    \o (IF p.gz THEN GzExt ELSE <<>>)

\* fmt.Sprintf("%s.%s", fileName, suffix), for a fileName without a stamp.
ArchiveName(file, stamp) == [file EXCEPT !.stamp = stamp]

\* fmt.Sprintf("%s.gz", path)
GzName(path) == [path EXCEPT !.gz = TRUE]

\* The directory: the names present, each with the file (inode) it names.
Rename(dir, old, new) ==
    [n \in (DOMAIN dir \ {old}) \cup {new} |-> IF n = new THEN dir[old] ELSE dir[n]]

Remove(dir, names) == [n \in DOMAIN dir \ names |-> dir[n]]

Create(dir, name, ino) ==
    [n \in DOMAIN dir \cup {name} |->
        IF n \in DOMAIN dir THEN dir[n] ELSE ino]

-----------------------------------------------------------------------------
(* Bounds and inputs.                                                      *)

\* The clock runs over MaxTicks seconds from T0.
MaxTicks == 1

\* os.OpenFile succeeds at most MaxOpens - 1 times after the first open
\* (EngineOpens - 1 times where one caller rotates at a time).
MaxOpens == 3
EngineOpens == 2

\* Manual (out-of-band) callers of Rotate / rotate.
MaxCallers == 1

\* Rotation loops StartRotate may start.
MaxLoops == 1

\* Goroutines that log through the Logger.
MaxWriters == 1

\* Goroutines that call Stop() and StartRotate() at once, and the loops
\* they may start.
MaxControllers == 2
MaxStarts == 2

\* The goroutines that call rotate() of part_001 at once.
MaxRotors == 2

\* The configuration of the repository's TestRotate.
TestDuration == 1
TestRotate == 5

T0 == DaysFromCivil(2024, 1, 1) * SecondsPerDay

Configs == {[Rotate |-> TestRotate, Duration |-> TestDuration, Compress |-> c] :
              c \in BOOLEAN}

\* The active file's path: in a plain directory, or in a directory named by
\* a timestamp.
PlainPath == [dir |-> <<"d">>, base |-> "a", stamp |-> NoStamp, gz |-> FALSE]
StampedPath == [PlainPath EXCEPT !.dir = Format(T0 - 3600, formatSec)]
ActivePaths == {PlainPath, StampedPath}

\* Entries the log directory may hold beside the active file.
EdgeArchive(file) == ArchiveName(file, Stamp(T0 - TestDuration * TestRotate, formatSec))
OldGzArchive(file) == GzName(ArchiveName(file, Stamp(T0 - 3600, formatSec)))
OtherFile(file) == [file EXCEPT !.base = "b", !.stamp = Stamp(T0 - 3600, formatSec)]
BadArchive(file) == GzName(ArchiveName(file, BadStamp))
PlainFile(file) == [file EXCEPT !.base = "c"]
Entries(file) == <<EdgeArchive(file), OldGzArchive(file), OtherFile(file),
                   BadArchive(file), PlainFile(file)>>

Callers == {<<"caller", i>> : i \in 1..MaxCallers}
Loops == {<<"loop", i>> : i \in 1..MaxLoops}
Writers == {<<"writer", i>> : i \in 1..MaxWriters}
Controllers == {<<"controller", i>> : i \in 1..MaxControllers}

-----------------------------------------------------------------------------
VARIABLES
    now,           \* time.Now(), seconds
    fs,            \* the directory: path -> the file it names (the handle whose
                   \* open created it, or NoFile for a file made otherwise)
    files,         \* the *os.File values opened so far: [ino, closed]
    fileName,      \* the active path (fd.Name() / l.fileName)
    cfg,           \* l.rotateCfg / l.param
    suffixFormat,  \* l.suffixFormat
    w,             \* l.w (log.go)
    out,           \* the embedded log.Logger's out
    mu,            \* the embedded log.Logger's mutex: its holder, or Free
    rot,           \* the Rotate / rotate calls: one per goroutine
    jobs,          \* the detached goroutines a rotation spawned
    opens,         \* how many files the run may open (a bound of the model)
    rotateCh,      \* l.rotateCh: a channel, or NoChan for nil
    chans,         \* the channels made so far: whether each is closed
    loop,          \* the goroutines StartRotate started
    wr,            \* the goroutines that log
    ctl,           \* the goroutines that call Stop() and StartRotate()
    lastSuffix,    \* l.lastSuffix (part_001)
    fd,            \* l.fd (part_001)
    compressing,   \* l.compressing (part_001)
    calls,         \* the rotate() calls of part_001: one per goroutine
    gos,           \* the compress goroutines part_001's rotate spawned
    sweeps,        \* the deleteOverdue goroutines spawned and not yet run
    Level,         \* l.Level: the minimum level (log.go)
    records,       \* what Output() has written, oldest first
    lg             \* the goroutine that calls Debug() ... Critical()

vars == <<now, fs, files, fileName, cfg, suffixFormat, w, out, mu,
          rot, jobs, opens, rotateCh, chans, loop, wr, ctl,
          lastSuffix, fd, compressing, calls, gos, sweeps,
          Level, records, lg>>

\* What only the level methods of src/log.go change.
logging == <<Level, records, lg>>

\* What only the scheduler of src/log.go and the writers change.
sched == <<rotateCh, chans, loop, wr, ctl>>

\* What only src/unnamed/part_001 has.
part1 == <<lastSuffix, fd, compressing, calls, gos, sweeps>>

\* What only src/log.go has.
part0 == <<w, rot, jobs, sched>>

\* l.Error(...) emits a record through the Logger; what the records say is
\* not part of the state.

NoFile == 0
NoChan == 0
NoPath == <<>>
Free == <<>>

OffLoop == [pc |-> "off", ch |-> NoChan, next |-> 0, sawStop |-> FALSE]
IdleWriter == [pc |-> "idle", h |-> NoFile]

\* A goroutine that is in neither Stop() nor StartRotate().
IdleCtl == [pc |-> "idle", op |-> "none", ret |-> "none"]

IdleCall == [pc |-> "idle", fd |-> NoFile, now |-> 0, target |-> NoPath,
             newFd |-> NoFile, ret |-> "none"]

JobIds == 1..(MaxOpens - 1)
FreeJob == [pc |-> "free", path |-> NoPath, now |-> 0, failed |-> {}]

\* The lowest free slot for a detached goroutine.
FreeSlot ==
    CHOOSE j \in JobIds :
        jobs[j].pc = "free" /\ \A k \in JobIds : jobs[k].pc = "free" => j <= k

Exists(path) == path \in DOMAIN fs

Window == cfg.Duration * cfg.Rotate

\* The goroutines that call rotate() of part_001: doRotate loops, direct calls.
Rotors == {<<"rotor", i>> : i \in 1..MaxRotors}

\* A rotate() call of part_001 before it begins.
IdleCall1 == [pc |-> "idle", suffix |-> NoStamp, nf |-> NoPath,
              newFd |-> NoFile, oldFd |-> NoFile, ret |-> "none"]

\* A compress goroutine of part_001 that was not spawned yet.
NoGo == [pc |-> "none", path |-> NoPath, suc |-> FALSE]

LevelDebug == 0
LevelInfo == 1
LevelNotice == 2
LevelWarning == 3
LevelError == 4
LevelCritical == 5

\* No call of a level method yet.
IdleLog == [n |-> 0, level |-> LevelDebug]

\* New(w, prefix, flag, level, cfg) with the level of the test.
NoLogging ==
    /\ Level = LevelInfo
    /\ records = <<>>
    /\ lg = IdleLog

\* part_001's fields in a run of src/log.go, and the reverse.
NoPart1 ==
    /\ lastSuffix = NoStamp
    /\ fd = NoFile
    /\ compressing = 0
    /\ calls = [p \in Rotors |-> IdleCall1]
    /\ gos = [g \in JobIds |-> NoGo]
    /\ sweeps = 0

NoPart0 ==
    /\ w = NoFile
    /\ rot = [p \in Callers \cup Loops |-> IdleCall]
    /\ jobs = [j \in JobIds |-> FreeJob]
    /\ rotateCh = NoChan
    /\ chans = <<>>
    /\ loop = [l \in Loops |-> OffLoop]
    /\ wr = [x \in Writers |-> IdleWriter]
    /\ ctl = [s \in Controllers |-> IdleCtl]

-----------------------------------------------------------------------------
(* src/log.go: Rotate.                                                     *)

\* The call returns v; its locals die with it.
Return(p, v) == [rot EXCEPT ![p] = [IdleCall EXCEPT !.ret = v]]

\* A caller invokes l.Rotate().
CallRotate(p) ==
    /\ rot[p].pc = "idle"
    /\ rot' = [rot EXCEPT ![p] = [IdleCall EXCEPT !.pc = "begin"]]
    /\ UNCHANGED <<logging, now, fs, files, fileName, cfg, suffixFormat, w, out,
                   mu, jobs, opens, sched, part1>>

\* The layout Rotate selects from the configured Duration.
RotateLayout == IF cfg.Duration < 60 THEN formatSec ELSE formatMin

\* now.Truncate(l.rotateCfg.Duration).Format(l.suffixFormat)
RotateSuffix(t) == Stamp(Truncate(t, cfg.Duration), RotateLayout)

\* Rotate, up to the rename: the layout, the current output, the target.
RotateBegin(p) ==
    /\ rot[p].pc = "begin"
    /\ suffixFormat' = RotateLayout
    /\ rot' = [rot EXCEPT ![p].pc = "rename",
                          ![p].fd = w,
                          ![p].now = now,
                          ![p].target = ArchiveName(fileName, RotateSuffix(now))]
    /\ UNCHANGED <<logging, now, fs, files, fileName, cfg, w, out, mu, jobs, opens, sched, part1>>

\* os.Rename(fileName, targetLogName) succeeds.
RotateRenameOk(p) ==
    /\ rot[p].pc = "rename"
    /\ Exists(fileName)
    /\ fs' = Rename(fs, fileName, rot[p].target)
    /\ rot' = [rot EXCEPT ![p].pc = "open"]
    /\ UNCHANGED <<logging, now, files, fileName, cfg, suffixFormat, w, out, mu, jobs, opens, sched, part1>>

\* A Rotate whose failed rename goes unreported.
RotateRenameFailSilent(p) ==
    /\ rot[p].pc = "rename"
    /\ rot' = Return(p, "nil")
    /\ UNCHANGED <<logging, now, fs, files, fileName, cfg, suffixFormat, w, out,
                   mu, jobs, opens, sched, part1>>

\* os.Rename fails: the error is logged and returned.
RotateRenameFail(p) ==
    /\ rot[p].pc = "rename"
    /\ rot' = Return(p, "rename fail")
    /\ UNCHANGED <<logging, now, fs, files, fileName, cfg, suffixFormat, w, out,
                   mu, jobs, opens, sched, part1>>

\* os.OpenFile(fileName, O_WRONLY|O_APPEND|O_CREATE) succeeds.
RotateOpenOk(p) ==
    /\ rot[p].pc = "open"
    /\ Len(files) < opens
    /\ LET ino == IF Exists(fileName) THEN fs[fileName] ELSE Len(files) + 1
       IN /\ fs' = Create(fs, fileName, ino)
          /\ files' = Append(files, [ino |-> ino, closed |-> FALSE])
    /\ rot' = [rot EXCEPT ![p].pc = "setw", ![p].newFd = Len(files) + 1]
    /\ UNCHANGED <<logging, now, fileName, cfg, suffixFormat, w, out, mu, jobs, opens, sched, part1>>

\* os.OpenFile fails: the archive is renamed back (the result is ignored).
RotateOpenFail(p) ==
    /\ rot[p].pc = "open"
    /\ \/ /\ Exists(rot[p].target)
          /\ fs' = Rename(fs, rot[p].target, fileName)
       \/ fs' = fs
    /\ rot' = Return(p, "open fail")
    /\ UNCHANGED <<logging, now, files, fileName, cfg, suffixFormat, w, out, mu,
                   jobs, opens, sched, part1>>

\* SetOutput, first statement: l.w = w.
RotateSetW(p) ==
    /\ rot[p].pc = "setw"
    /\ w' = rot[p].newFd
    /\ rot' = [rot EXCEPT ![p].pc = "setout"]
    /\ UNCHANGED <<logging, now, fs, files, fileName, cfg, suffixFormat, out, mu, jobs, opens, sched, part1>>

\* SetOutput, second statement: l.Logger.SetOutput(w), under the mutex.
RotateSetOutput(p) ==
    /\ rot[p].pc = "setout"
    /\ mu = Free
    /\ out' = rot[p].newFd
    /\ rot' = [rot EXCEPT ![p].pc = "close"]
    /\ UNCHANGED <<logging, now, fs, files, fileName, cfg, suffixFormat, w, mu, jobs, opens, sched, part1>>

\* The handle Rotate closes after the swap.
RotateClosed(p) == rot[p].fd

\* oldFd.Close(), then the detached compress-and-clean goroutine; returns nil.
RotateClose(p) ==
    /\ rot[p].pc = "close"
    /\ files' = [files EXCEPT ![RotateClosed(p)].closed = TRUE]
    /\ jobs' = [jobs EXCEPT ![FreeSlot] =
                  [pc |-> IF cfg.Compress THEN "open" ELSE "clean",
                   path |-> rot[p].target, now |-> rot[p].now, failed |-> {}]]
    /\ rot' = Return(p, "nil")
    /\ UNCHANGED <<logging, now, fs, fileName, cfg, suffixFormat, w, out, mu, opens, sched, part1>>

Rotate(p) ==
    \/ RotateBegin(p)
    \/ RotateRenameOk(p)
    \/ RotateRenameFail(p)
    \/ RotateOpenOk(p)
    \/ RotateOpenFail(p)
    \/ RotateSetW(p)
    \/ RotateSetOutput(p)
    \/ RotateClose(p)

-----------------------------------------------------------------------------
(* src/log.go: compress and cleanOldLogs, the detached goroutine.          *)

JobStep(j, pc, failure) ==
    [jobs EXCEPT ![j].pc = pc, ![j].failed = jobs[j].failed \cup failure]

\* rawfile, err = os.Open(path)
CompressOpenRaw(j) ==
    /\ jobs[j].pc = "open"
    /\ \/ /\ Exists(jobs[j].path)
          /\ jobs' = JobStep(j, "create", {})
       \/ /\ jobs' = JobStep(j, "defer", {"open"})
    /\ UNCHANGED <<logging, now, fs, files, fileName, cfg, suffixFormat, w, out, mu, rot, opens, sched, part1>>

\* wf, err = os.OpenFile(gfn, O_WRONLY|O_TRUNC|O_CREATE)
CompressCreateGz(j) ==
    /\ jobs[j].pc = "create"
    /\ \/ /\ jobs' = JobStep(j, "copy", {})
          /\ LET gfn == GzName(jobs[j].path)
             IN fs' = Create(fs, gfn, NoFile)
       \/ /\ jobs' = JobStep(j, "defer", {"create"})
          /\ fs' = fs
    /\ UNCHANGED <<logging, now, files, fileName, cfg, suffixFormat, w, out, mu, rot, opens, sched, part1>>

\* _, err = io.Copy(gzfile, rawfile)
CompressCopy(j) ==
    /\ jobs[j].pc = "copy"
    /\ \/ /\ jobs' = JobStep(j, "defer", {})
       \/ /\ jobs' = JobStep(j, "defer", {"copy"})
    /\ UNCHANGED <<logging, now, fs, files, fileName, cfg, suffixFormat, w, out, mu, rot, opens, sched, part1>>

\* The named result err of compress when the deferred function runs.
CompressErr(j) == jobs[j].failed \cap {"open", "create", "copy"} # {}

\* Whether the deferred function removes the raw archive.
CompressRemoves(j) == ~CompressErr(j)

\* The closes the deferred function makes once gzfile and wf are set:
\* gzfile.Flush() with gzfile.Close(), and wf.Close().  Each may fail, and no
\* result is looked at.
DeferredCloses(j) ==
    IF jobs[j].failed \cap {"open", "create"} # {} THEN {}
    ELSE {"gzclose", "close"}

\* The deferred function: the closes, then os.Remove(path) if err == nil.
\* compress returns and cleanOldLogs is next.
CompressDeferred(j) ==
    /\ jobs[j].pc = "defer"
    /\ \E failing \in SUBSET DeferredCloses(j) :
          jobs' = JobStep(j, "clean", failing)
    /\ fs' = IF CompressRemoves(j) THEN Remove(fs, {jobs[j].path}) ELSE fs
    /\ UNCHANGED <<logging, now, files, fileName, cfg, suffixFormat, w, out, mu, rot, opens, sched, part1>>

\* isOverdue(now, ts): a stamp that does not parse is reported through
\* l.Error and is not overdue.
isOverdue(t, ts) ==
    LET wt == Parse(suffixFormat, ts)
    IN IF ~wt.ok THEN FALSE ELSE t - wt.t > Window

\* filepath.Glob(dir + "/*")
Glob(dir) == {fn \in DOMAIN fs : Dir(PathString(fn)) = dir}

\* The stamp cleanOldLogs reads from a globbed path: rx.FindString(fn).
CleanMatch(fn) == FindDigits(PathString(fn), LayoutLen(suffixFormat))

\* The paths one sweep removes.
CleanRemoves(t) ==
    {fn \in Glob(Dir(PathString(fileName))) :
       LET match == CleanMatch(fn)
       IN Len(match) > 0 /\ isOverdue(t, match)}

\* The stamps one sweep reports through l.Error("parse time err ...").
CleanReports ==
    {CleanMatch(fn) : fn \in {g \in Glob(Dir(PathString(fileName))) :
       LET match == CleanMatch(g)
       IN Len(match) > 0 /\ ~Parse(suffixFormat, match).ok}}

\* cleanOldLogs(now, fileName): the goroutine ends with it.
cleanOldLogs(j) ==
    /\ jobs[j].pc = "clean"
    /\ fs' = Remove(fs, CleanRemoves(jobs[j].now))
    /\ jobs' = [jobs EXCEPT ![j] = FreeJob]
    /\ UNCHANGED <<logging, now, files, fileName, cfg, suffixFormat, w, out, mu, rot, opens, sched, part1>>

compress(j) ==
    \/ CompressOpenRaw(j)
    \/ CompressCreateGz(j)
    \/ CompressCopy(j)
    \/ CompressDeferred(j)

Job(j) ==
    \/ compress(j)
    \/ cleanOldLogs(j)

\* Time passes.
Tick ==
    /\ now < T0 + MaxTicks
    /\ now' = now + 1
    /\ UNCHANGED <<logging, fs, files, fileName, cfg, suffixFormat, w, out, mu, rot, jobs, opens, sched, part1>>

-----------------------------------------------------------------------------
(* The engine of src/log.go with one caller: rotations follow one another, *)
(* the detached goroutines run beside them.                                *)

Caller1 == <<"caller", 1>>

\* The directory at start: the active file and any of the other entries.
InitDirs(file) ==
    {[n \in {file} \cup {Entries(file)[i] : i \in have} |->
        IF n = file THEN 1 ELSE NoFile] :
     have \in {{}, 1..Len(Entries(file))}}

InitEngine ==
    /\ now = T0
    /\ fileName \in ActivePaths
    /\ cfg \in Configs
    /\ fs \in InitDirs(fileName)
    /\ files = <<[ino |-> 1, closed |-> FALSE]>>
    /\ suffixFormat = ""
    /\ w = 1
    /\ out = 1
    /\ mu = Free
    /\ rot = [p \in Callers \cup Loops |-> IdleCall]
    /\ jobs = [j \in JobIds |-> FreeJob]
    /\ opens = EngineOpens
    /\ rotateCh = NoChan
    /\ chans = <<>>
    /\ loop = [l \in Loops |-> OffLoop]
    /\ wr = [x \in Writers |-> IdleWriter]
    /\ ctl = [s \in Controllers |-> IdleCtl]
    /\ NoPart1
    /\ NoLogging

NextEngine ==
    \/ Tick
    \/ CallRotate(Caller1)
    \/ Rotate(Caller1)
    \/ \E j \in JobIds : Job(j)

SpecEngine == InitEngine /\ [][NextEngine]_vars

-----------------------------------------------------------------------------
(* The engine of src/log.go over several Durations and a clock that moves  *)
(* by more than a second at a time: the suffixes Rotate() derives.         *)

\* Durations of a second and more: below a minute, whole minutes, and a
\* minute and a half.
SuffixDurations == {1, 7, 60, 90, 3600}

\* Instants around the boundaries of those Durations.
SuffixTimes == {T0 + k : k \in {0, 1, 6, 7, 59, 60, 89, 90, 91, 179, 180, 3599, 3600}}

\* time.Now() is later than it was.
Sleep ==
    /\ now' \in {t \in SuffixTimes : t > now}
    /\ UNCHANGED <<logging, fs, files, fileName, cfg, suffixFormat, w, out, mu, rot, jobs,
                   opens, sched, part1>>

InitSuffix ==
    /\ now \in SuffixTimes
    /\ fileName = PlainPath
    /\ cfg \in {[Rotate |-> TestRotate, Duration |-> d, Compress |-> FALSE] :
                  d \in SuffixDurations}
    /\ fs = [n \in {fileName} |-> 1]
    /\ files = <<[ino |-> 1, closed |-> FALSE]>>
    /\ suffixFormat = ""
    /\ w = 1
    /\ out = 1
    /\ mu = Free
    /\ rot = [p \in Callers \cup Loops |-> IdleCall]
    /\ jobs = [j \in JobIds |-> FreeJob]
    /\ opens = EngineOpens
    /\ rotateCh = NoChan
    /\ chans = <<>>
    /\ loop = [l \in Loops |-> OffLoop]
    /\ wr = [x \in Writers |-> IdleWriter]
    /\ ctl = [s \in Controllers |-> IdleCtl]
    /\ NoPart1
    /\ NoLogging

NextSuffix ==
    \/ Sleep
    \/ CallRotate(Caller1)
    \/ Rotate(Caller1)
    \/ \E j \in JobIds : cleanOldLogs(j)

SpecSuffix == InitSuffix /\ [][NextSuffix]_vars

-----------------------------------------------------------------------------
(* src/log.go: StartRotate, Stop and the rotation loop; the writers.       *)

engine == <<fs, files, fileName, cfg, suffixFormat, w, out, jobs, opens>>

\* closeChannel(): the channels after it.
ClosedChans == IF rotateCh = NoChan THEN chans ELSE [chans EXCEPT ![rotateCh] = TRUE]

\* l.rotateCfg == nil
NoConfig == <<>>

\* A StartRotate that takes any configuration there is.
ValidConfigLax == cfg # NoConfig

\* The rotate config StartRotate accepts.
ValidConfig == ~(cfg = NoConfig \/ cfg.Rotate <= 0 \/ cfg.Duration < 1)

\* The lowest loop goroutine not yet started.
NewLoop ==
    CHOOSE l \in DOMAIN loop :
        loop[l].pc = "off" /\ \A k \in DOMAIN loop : loop[k].pc = "off" => l[2] <= k[2]

\* StartRotate(): closes the channel at hand, makes a new one and starts a
\* loop on it.
StartRotate ==
    /\ \E l \in DOMAIN loop : loop[l].pc = "off"
    /\ IF ValidConfig
       THEN /\ chans' = Append(ClosedChans, FALSE)
            /\ rotateCh' = Len(chans) + 1
            /\ loop' = [loop EXCEPT ![NewLoop].pc = "top"]
       ELSE UNCHANGED <<logging, chans, rotateCh, loop>>
    /\ UNCHANGED <<logging, now, mu, rot, wr, ctl, engine, part1>>

\* Stop(): closeChannel().
Stop ==
    /\ chans' = ClosedChans
    /\ rotateCh' = NoChan
    /\ UNCHANGED <<logging, now, mu, rot, loop, wr, ctl, engine, part1>>

\* The loop is at the top of an iteration: it was just started, or its
\* Rotate() has returned.
AtTop(l) == loop[l].pc = "top" \/ (loop[l].pc = "rotate" /\ rot[l].pc = "idle")

\* next := time.Now().Add(d).Truncate(d); the select is entered on the
\* channel l.rotateCh names now and on time.After(next.Sub(time.Now())).
LoopSelect(l) ==
    /\ AtTop(l)
    /\ loop' = [loop EXCEPT ![l].pc = "select",
                            ![l].ch = rotateCh,
                            ![l].next = Truncate(now + cfg.Duration, cfg.Duration)]
    /\ UNCHANGED <<logging, now, mu, rot, rotateCh, chans, wr, ctl, engine, part1>>

\* What the loop does when its select returns.
AfterSelect(l, stopped) ==
    [loop EXCEPT ![l].pc = "rotate", ![l].sawStop = loop[l].sawStop \/ stopped]

\* case <-l.rotateCh: the channel was closed.  l.Rotate() is next.
LoopWakeStop(l) ==
    /\ loop[l].pc = "select"
    /\ loop[l].ch # NoChan
    /\ chans[loop[l].ch]
    /\ loop' = AfterSelect(l, TRUE)
    /\ rot' = [rot EXCEPT ![l] = [IdleCall EXCEPT !.pc = "begin"]]
    /\ UNCHANGED <<logging, now, mu, rotateCh, chans, wr, ctl, engine, part1>>

\* case <-time.After(wait): the boundary was reached.  l.Rotate() is next.
LoopWakeTimer(l) ==
    /\ loop[l].pc = "select"
    /\ now >= loop[l].next
    /\ loop' = AfterSelect(l, FALSE)
    /\ rot' = [rot EXCEPT ![l] = [IdleCall EXCEPT !.pc = "begin"]]
    /\ UNCHANGED <<logging, now, mu, rotateCh, chans, wr, ctl, engine, part1>>

Loop(l) ==
    \/ LoopSelect(l)
    \/ LoopWakeStop(l)
    \/ LoopWakeTimer(l)

\* l.log -> log.Logger.Output: the mutex is taken and out is read under it.
WriteLock(x) ==
    /\ wr[x].pc = "idle"
    /\ mu = Free
    /\ mu' = x
    /\ wr' = [wr EXCEPT ![x] = [pc |-> "write", h |-> out]]
    /\ UNCHANGED <<logging, now, rot, rotateCh, chans, loop, ctl, engine, part1>>

\* out.Write(buf), then the mutex is released.
WriteOut(x) ==
    /\ wr[x].pc = "write"
    /\ mu' = Free
    /\ wr' = [wr EXCEPT ![x] = IdleWriter]
    /\ UNCHANGED <<logging, now, rot, rotateCh, chans, loop, ctl, engine, part1>>

Write(x) ==
    \/ WriteLock(x)
    \/ WriteOut(x)

-----------------------------------------------------------------------------
(* src/log.go: the level methods and log().                                *)

MaxLogs == 3

\* The levels Debug() ... Critical() pass to log().
Levels == LevelDebug..LevelCritical

\* What l.Level may be set to: a Level is an int.
MinLevels == (LevelDebug - 1)..(LevelCritical + 1)

tagDebug == "[Debug] "
tagInfo == "[Info] "
tagNotice == "[Notice] "
tagWarning == "[Warning] "
tagError == "[Error] "
tagCritical == "[Critical] "

levelTags ==
    [l \in Levels |->
        CASE l = LevelDebug -> tagDebug
          [] l = LevelInfo -> tagInfo
          [] l = LevelNotice -> tagNotice
          [] l = LevelWarning -> tagWarning
          [] l = LevelError -> tagError
          [] l = LevelCritical -> tagCritical]

\* Level.String()
String(l) == IF l \in DOMAIN levelTags THEN levelTags[l] ELSE "[Unknown] "

\* fmt.Sprint(a, b) of two strings: the one, then the other, nothing between.
Sprint(a, b) == <<a, b>>

\* fmt.Sprintf(format, v...): the text of the call.
Sprintf == "text"

\* if level < l.Level { return }, with "at or below" in place of "below".
BelowOrAt(level) == level <= Level

\* if level < l.Level { return }
Below(level) == level < Level

\* log(level, format, v...): nothing below the minimum level, otherwise
\* Output() of the tag and the text, one Write to the writer.
log(level) ==
    /\ lg.n < MaxLogs
    /\ lg' = [n |-> lg.n + 1, level |-> level]
    /\ records' = IF Below(level) THEN records
                  ELSE Append(records, Sprint(String(level), Sprintf))
    /\ UNCHANGED <<now, mu, rot, sched, engine, part1, Level>>

\* ll.Level = m
SetLevel(m) ==
    /\ m # Level
    /\ Level' = m
    /\ UNCHANGED <<now, mu, rot, sched, engine, part1, records, lg>>

\* New(os.Stderr, prefix, flag, level, nil), at any level.
InitLevel ==
    /\ now = T0
    /\ fileName = PlainPath
    /\ cfg = NoConfig
    /\ fs = [n \in {fileName} |-> 1]
    /\ files = <<[ino |-> 1, closed |-> FALSE]>>
    /\ suffixFormat = ""
    /\ w = 1
    /\ out = 1
    /\ mu = Free
    /\ rot = [p \in Callers \cup Loops |-> IdleCall]
    /\ jobs = [j \in JobIds |-> FreeJob]
    /\ opens = EngineOpens
    /\ rotateCh = NoChan
    /\ chans = <<>>
    /\ loop = [l \in Loops |-> OffLoop]
    /\ wr = [x \in Writers |-> IdleWriter]
    /\ ctl = [s \in Controllers |-> IdleCtl]
    /\ NoPart1
    /\ Level \in MinLevels
    /\ records = <<>>
    /\ lg = IdleLog

NextLevel ==
    \/ \E m \in MinLevels : SetLevel(m)
    \/ \E level \in Levels : log(level)

SpecLevel == InitLevel /\ [][NextLevel]_vars

-----------------------------------------------------------------------------
(* src/log.go as a whole: the loops, the manual callers, the writers and   *)
(* the detached goroutines.                                                *)

Init ==
    /\ now = T0
    /\ fileName = PlainPath
    /\ cfg \in {c \in Configs : ~c.Compress}
    /\ fs = [n \in {fileName} |-> 1]
    /\ files = <<[ino |-> 1, closed |-> FALSE]>>
    /\ suffixFormat = ""
    /\ w = 1
    /\ out = 1
    /\ mu = Free
    /\ rot = [p \in Callers \cup Loops |-> IdleCall]
    /\ jobs = [j \in JobIds |-> FreeJob]
    /\ opens = MaxOpens
    /\ rotateCh = NoChan
    /\ chans = <<>>
    /\ loop = [l \in Loops |-> OffLoop]
    /\ wr = [x \in Writers |-> IdleWriter]
    /\ ctl = [s \in Controllers |-> IdleCtl]
    /\ NoPart1
    /\ NoLogging

Next ==
    \/ Tick
    \/ StartRotate
    \/ Stop
    \/ \E l \in Loops : Loop(l)
    \/ \E p \in Callers : CallRotate(p)
    \/ \E p \in Callers \cup Loops : Rotate(p)
    \/ \E x \in Writers : Write(x)
    \/ \E j \in JobIds : cleanOldLogs(j)

Spec == Init /\ [][Next]_vars

-----------------------------------------------------------------------------
(* src/log.go: Stop() and StartRotate() statement by statement, for the    *)
(* goroutines that call them at once, and the loops they start.            *)

\* The loops the controllers may start.
Starts == {<<"loop", i>> : i \in 1..MaxStarts}

\* A RotateConfig with a field StartRotate rejects.
ZeroRotate == [Rotate |-> 0, Duration |-> TestDuration, Compress |-> FALSE]
ZeroDuration == [Rotate |-> TestRotate, Duration |-> 0, Compress |-> FALSE]

\* The configurations a Logger is made with, and those the owner of the
\* RotateConfig can turn it into by writing its fields.
SomeConfigs == {c \in Configs : ~c.Compress} \cup {ZeroRotate, ZeroDuration}

\* The owner of the RotateConfig the Logger points to writes a field of it.
SetConfig ==
    /\ cfg # NoConfig
    /\ cfg' \in SomeConfigs \ {cfg}
    /\ UNCHANGED <<logging, now, fs, files, fileName, suffixFormat, w, out, mu, rot, jobs,
                   opens, sched, part1>>

\* The loops StartRotate calls in flight will start.
Starting == Cardinality({s \in Controllers : ctl[s].op = "StartRotate" /\ ctl[s].pc # "idle"})

\* The call returns v.
Done(s, v) == [ctl EXCEPT ![s].pc = "idle", ![s].ret = v]

\* Stop() is called: closeChannel() is next.
CallStop(s) ==
    /\ ctl[s].pc = "idle"
    /\ ctl' = [ctl EXCEPT ![s] = [pc |-> "check", op |-> "Stop", ret |-> "none"]]
    /\ UNCHANGED <<logging, now, mu, rot, rotateCh, chans, loop, wr, engine, part1>>

\* StartRotate() is called: the configuration check, then closeChannel().
\* (A call that would start more loops than the model holds is not made.)
CallStartRotate(s) ==
    /\ ctl[s].pc = "idle"
    /\ ValidConfig => Cardinality({l \in DOMAIN loop : loop[l].pc = "off"}) > Starting
    /\ ctl' = [ctl EXCEPT ![s] =
                 IF ValidConfig
                 THEN [pc |-> "check", op |-> "StartRotate", ret |-> "none"]
                 ELSE [pc |-> "idle", op |-> "StartRotate",
                       ret |-> "errInvalidRotateConfig"]]
    /\ UNCHANGED <<logging, now, mu, rot, rotateCh, chans, loop, wr, engine, part1>>

\* What follows closeChannel(): Stop returns, StartRotate makes its channel.
AfterClose(s) ==
    IF ctl[s].op = "Stop" THEN Done(s, "nil") ELSE [ctl EXCEPT ![s].pc = "make"]

\* closeChannel: if l.rotateCh != nil
closeChannelCheck(s) ==
    /\ ctl[s].pc = "check"
    /\ ctl' = IF rotateCh # NoChan THEN [ctl EXCEPT ![s].pc = "close"]
              ELSE AfterClose(s)
    /\ UNCHANGED <<logging, now, mu, rot, rotateCh, chans, loop, wr, engine, part1>>

\* close(l.rotateCh) panics on a nil channel and on a closed one.
ClosePanics == rotateCh = NoChan \/ chans[rotateCh]

\* closeChannel: close(l.rotateCh)
closeChannelClose(s) ==
    /\ ctl[s].pc = "close"
    /\ IF ClosePanics
       THEN /\ ctl' = [ctl EXCEPT ![s].pc = "panic"]
            /\ chans' = chans
       ELSE /\ ctl' = [ctl EXCEPT ![s].pc = "nil"]
            /\ chans' = ClosedChans
    /\ UNCHANGED <<logging, now, mu, rot, rotateCh, loop, wr, engine, part1>>

\* closeChannel: l.rotateCh = nil
closeChannelNil(s) ==
    /\ ctl[s].pc = "nil"
    /\ rotateCh' = NoChan
    /\ ctl' = AfterClose(s)
    /\ UNCHANGED <<logging, now, mu, rot, chans, loop, wr, engine, part1>>

\* StartRotate: l.rotateCh = make(chan bool); go func() {...}(); return
StartRotateMake(s) ==
    /\ ctl[s].pc = "make"
    /\ chans' = Append(chans, FALSE)
    /\ rotateCh' = Len(chans) + 1
    /\ loop' = [loop EXCEPT ![NewLoop].pc = "top"]
    /\ ctl' = Done(s, "nil")
    /\ UNCHANGED <<logging, now, mu, rot, wr, engine, part1>>

Control(s) ==
    \/ CallStop(s)
    \/ CallStartRotate(s)
    \/ closeChannelCheck(s)
    \/ closeChannelClose(s)
    \/ closeChannelNil(s)
    \/ StartRotateMake(s)

\* A Logger made with one of cfgs on an open file; the goroutines of L are
\* the loops StartRotate may start.
InitControl(L, cfgs) ==
    /\ now = T0
    /\ fileName = PlainPath
    /\ cfg \in cfgs
    /\ fs = [n \in {fileName} |-> 1]
    /\ files = <<[ino |-> 1, closed |-> FALSE]>>
    /\ suffixFormat = ""
    /\ w = 1
    /\ out = 1
    /\ mu = Free
    /\ rot = [p \in L |-> IdleCall]
    /\ jobs = [j \in JobIds |-> FreeJob]
    /\ opens = EngineOpens
    /\ rotateCh = NoChan
    /\ chans = <<>>
    /\ loop = [l \in L |-> OffLoop]
    /\ wr = [x \in Writers |-> IdleWriter]
    /\ ctl = [s \in Controllers |-> IdleCtl]
    /\ NoPart1
    /\ NoLogging

Controller1 == <<"controller", 1>>

\* One goroutine calls StartRotate() and Stop(), one call after the other,
\* on a Logger of any configuration, which its owner may rewrite.
InitStart == InitControl(Loops, SomeConfigs \cup {NoConfig})

NextStart ==
    \/ Tick
    \/ SetConfig
    \/ Control(Controller1)
    \/ \E l \in Loops : Loop(l)
    \/ \E l \in Loops : Rotate(l)
    \/ \E j \in JobIds : cleanOldLogs(j)

SpecStart == InitStart /\ [][NextStart]_vars

\* One goroutine calls StartRotate() and Stop(), one call after the other,
\* and may start several loops.
InitLoops == InitControl(Starts, {c \in Configs : ~c.Compress})

NextLoops ==
    \/ Tick
    \/ Control(Controller1)
    \/ \E l \in Starts : Loop(l)
    \/ \E l \in Starts : Rotate(l)
    \/ \E j \in JobIds : cleanOldLogs(j)

SpecLoops == InitLoops /\ [][NextLoops]_vars

\* Several goroutines call Stop() and StartRotate() at once.
InitStop == InitControl(Loops, {c \in Configs : ~c.Compress})

NextStop ==
    \/ Tick
    \/ \E s \in Controllers : Control(s)
    \/ \E l \in Loops : Loop(l)
    \/ \E l \in Loops : Rotate(l)
    \/ \E j \in JobIds : cleanOldLogs(j)

SpecStop == InitStop /\ [][NextStop]_vars

-----------------------------------------------------------------------------
(* src/unnamed/part_001: rotate.  Definitions whose name src/log.go has    *)
(* taken carry the suffix 1.                                               *)

\* SetLogParam: the layout for the Duration; any other Duration leaves the
\* layout as it was.
SetLogParamLayout(d, was) ==
    IF d = 24 * 60 * 60 THEN formatDay
    ELSE IF d = 60 * 60 THEN formatHour
    ELSE IF d = 60 THEN formatMin
    ELSE IF d = 1 THEN formatSec
    ELSE was

\* genSuffixStr at time t: the clock is rendered as it is, not truncated.
genSuffixStr(t) == IF suffixFormat = "" THEN NoStamp ELSE Stamp(t, suffixFormat)

\* rotate's first guard: nothing to rotate.
NothingToRotate == cfg.Duration = 0 \/ fd = NoFile \/ fileName = NoPath

\* rotate's label guard: l.lastSuffix == suffix.
SameLabel(suffix) == lastSuffix = suffix

\* The call returns v.  The record keeps the locals as the call left them
\* until the next call begins: nf is set once the label guard is passed,
\* newFd once the reopen succeeded.
Return1(p, v) == [calls EXCEPT ![p].pc = "idle", ![p].ret = v]

\* A call that returns nil before the rename.
Noop(suffix) == [IdleCall1 EXCEPT !.suffix = suffix, !.ret = "nil"]

\* rotate(), up to the rename: the guards and the label.
rotateBegin(p) ==
    /\ calls[p].pc = "idle"
    /\ LET suffix == genSuffixStr(now)
       IN IF NothingToRotate
          THEN /\ calls' = [calls EXCEPT ![p] = Noop(NoStamp)]
               /\ lastSuffix' = lastSuffix
          ELSE IF lastSuffix = NoStamp
          THEN /\ calls' = [calls EXCEPT ![p] = Noop(suffix)]
               /\ lastSuffix' = suffix
          ELSE IF SameLabel(suffix)
          THEN /\ calls' = [calls EXCEPT ![p] = Noop(suffix)]
               /\ lastSuffix' = lastSuffix
          ELSE /\ calls' = [calls EXCEPT ![p] =
                             [IdleCall1 EXCEPT !.pc = "rename",
                                               !.suffix = suffix,
                                               !.nf = ArchiveName(fileName, suffix)]]
               /\ lastSuffix' = lastSuffix
    /\ UNCHANGED <<logging, now, fs, files, fileName, cfg, suffixFormat, out, mu, opens,
                   fd, compressing, gos, sweeps, part0>>

\* os.Rename(l.fileName, nf): it succeeds, or the error is returned.
rotateRename(p) ==
    /\ calls[p].pc = "rename"
    /\ \/ /\ Exists(fileName)
          /\ fs' = Rename(fs, fileName, calls[p].nf)
          /\ calls' = [calls EXCEPT ![p].pc = "open"]
       \/ /\ fs' = fs
          /\ calls' = Return1(p, "err")
    /\ UNCHANGED <<logging, now, files, fileName, cfg, suffixFormat, out, mu, opens,
                   lastSuffix, fd, compressing, gos, sweeps, part0>>

\* os.OpenFile(l.fileName, O_WRONLY|O_APPEND|O_CREATE) succeeds.
rotateOpenOk(p) ==
    /\ calls[p].pc = "open"
    /\ Len(files) < opens
    /\ LET ino == IF Exists(fileName) THEN fs[fileName] ELSE Len(files) + 1
       IN /\ fs' = Create(fs, fileName, ino)
          /\ files' = Append(files, [ino |-> ino, closed |-> FALSE])
    /\ calls' = [calls EXCEPT ![p].pc = "setout", ![p].newFd = Len(files) + 1]
    /\ UNCHANGED <<logging, now, fileName, cfg, suffixFormat, out, mu, opens,
                   lastSuffix, fd, compressing, gos, sweeps, part0>>

\* os.OpenFile fails: the archive is renamed back, and the result of that
\* rename is what rotate returns.
rotateOpenFail(p) ==
    /\ calls[p].pc = "open"
    /\ \/ /\ Exists(calls[p].nf)
          /\ fs' = Rename(fs, calls[p].nf, fileName)
          /\ calls' = Return1(p, "nil")
       \/ /\ fs' = fs
          /\ calls' = Return1(p, "err")
    /\ UNCHANGED <<logging, now, files, fileName, cfg, suffixFormat, out, mu, opens,
                   lastSuffix, fd, compressing, gos, sweeps, part0>>

\* oldFd := l.fd; l.SetOutput(newFd)
rotateSetOutput(p) ==
    /\ calls[p].pc = "setout"
    /\ mu = Free
    /\ out' = calls[p].newFd
    /\ calls' = [calls EXCEPT ![p].pc = "setfd", ![p].oldFd = fd]
    /\ UNCHANGED <<logging, now, fs, files, fileName, cfg, suffixFormat, mu, opens,
                   lastSuffix, fd, compressing, gos, sweeps, part0>>

\* l.fd = newFd; oldFd.Close()
rotateSetFd(p) ==
    /\ calls[p].pc = "setfd"
    /\ fd' = calls[p].newFd
    /\ files' = [files EXCEPT ![calls[p].oldFd].closed = TRUE]
    /\ calls' = [calls EXCEPT ![p].pc = "finish"]
    /\ UNCHANGED <<logging, now, fs, fileName, cfg, suffixFormat, out, mu, opens,
                   lastSuffix, compressing, gos, sweeps, part0>>

\* The lowest slot no compress goroutine has taken.
FreeGo ==
    CHOOSE g \in JobIds :
        gos[g].pc = "none" /\ \A k \in JobIds : gos[k].pc = "none" => g <= k

\* A rotate that stores no new label.
StoredLabelStale(p) == lastSuffix

\* The label rotate stores once the swap is done: l.lastSuffix = suffix.
StoredLabel(p) == calls[p].suffix

\* l.lastSuffix = suffix; go l.compress(nf) if Compress; go l.deleteOverdue();
\* return nil.
rotateFinish(p) ==
    /\ calls[p].pc = "finish"
    /\ lastSuffix' = StoredLabel(p)
    /\ gos' = IF cfg.Compress
              THEN [gos EXCEPT ![FreeGo] =
                      [pc |-> "cas", path |-> calls[p].nf, suc |-> FALSE]]
              ELSE gos
    /\ sweeps' = sweeps + 1
    /\ calls' = Return1(p, "nil")
    /\ UNCHANGED <<logging, now, fs, files, fileName, cfg, suffixFormat, out, mu, opens,
                   fd, compressing, part0>>

rotate(p) ==
    \/ rotateBegin(p)
    \/ rotateRename(p)
    \/ rotateOpenOk(p)
    \/ rotateOpenFail(p)
    \/ rotateSetOutput(p)
    \/ rotateSetFd(p)
    \/ rotateFinish(p)

-----------------------------------------------------------------------------
(* src/unnamed/part_001: compress and deleteOverdue, detached goroutines.  *)

\* A compare-and-swap that swaps whatever the flag holds.
CompareAndSwapAlways(old) == TRUE

\* atomic.CompareAndSwapInt32(&l.compressing, old, new) swaps.
CompareAndSwapInt32(old) == compressing = old

GoStep(g, pc) == [gos EXCEPT ![g].pc = pc]

\* The single-flight guard: the flag is taken, or compress returns at once.
compressGuard(g) ==
    /\ gos[g].pc = "cas"
    /\ IF CompareAndSwapInt32(0)
       THEN compressing' = 1 /\ gos' = GoStep(g, "open")
       ELSE compressing' = compressing /\ gos' = GoStep(g, "skipped")
    /\ UNCHANGED <<logging, now, fs, files, fileName, cfg, suffixFormat, out, mu, opens,
                   lastSuffix, fd, calls, sweeps, part0>>

\* rawfile, err = os.Open(path)
compressOpenRaw(g) ==
    /\ gos[g].pc = "open"
    /\ \/ Exists(gos[g].path) /\ gos' = GoStep(g, "create")
       \/ gos' = GoStep(g, "defer")
    /\ UNCHANGED <<logging, now, fs, files, fileName, cfg, suffixFormat, out, mu, opens,
                   lastSuffix, fd, compressing, calls, sweeps, part0>>

\* wf, err = os.OpenFile(gfn, O_WRONLY|O_TRUNC|O_CREATE)
compressCreateGz(g) ==
    /\ gos[g].pc = "create"
    /\ \/ /\ gos' = GoStep(g, "copy")
          /\ fs' = Create(fs, GzName(gos[g].path), NoFile)
       \/ /\ gos' = GoStep(g, "defer")
          /\ fs' = fs
    /\ UNCHANGED <<logging, now, files, fileName, cfg, suffixFormat, out, mu, opens,
                   lastSuffix, fd, compressing, calls, sweeps, part0>>

\* _, err = io.Copy(gzfile, rawfile); suc = true
compressCopy(g) ==
    /\ gos[g].pc = "copy"
    /\ \/ gos' = [gos EXCEPT ![g].pc = "defer", ![g].suc = TRUE]
       \/ gos' = GoStep(g, "defer")
    /\ UNCHANGED <<logging, now, fs, files, fileName, cfg, suffixFormat, out, mu, opens,
                   lastSuffix, fd, compressing, calls, sweeps, part0>>

\* The deferred function: the closes, then os.Remove(path) if suc.
compressDeferred(g) ==
    /\ gos[g].pc = "defer"
    /\ fs' = IF gos[g].suc THEN Remove(fs, {gos[g].path}) ELSE fs
    /\ gos' = GoStep(g, "release")
    /\ UNCHANGED <<logging, now, files, fileName, cfg, suffixFormat, out, mu, opens,
                   lastSuffix, fd, compressing, calls, sweeps, part0>>

\* A compress whose first defer leaves the flag as it is.
compressKeepsFlag(g) ==
    /\ gos[g].pc = "release"
    /\ gos' = GoStep(g, "done")
    /\ UNCHANGED <<logging, now, fs, files, fileName, cfg, suffixFormat, out, mu, opens,
                   lastSuffix, fd, compressing, calls, sweeps, part0>>

\* The first defer runs last: CompareAndSwapInt32(&l.compressing, 1, 0).
compressRelease(g) ==
    /\ gos[g].pc = "release"
    /\ compressing' = IF CompareAndSwapInt32(1) THEN 0 ELSE compressing
    /\ gos' = GoStep(g, "done")
    /\ UNCHANGED <<logging, now, fs, files, fileName, cfg, suffixFormat, out, mu, opens,
                   lastSuffix, fd, calls, sweeps, part0>>

compress1(g) ==
    \/ compressGuard(g)
    \/ compressOpenRaw(g)
    \/ compressCreateGz(g)
    \/ compressCopy(g)
    \/ compressDeferred(g)
    \/ compressRelease(g)

\* filepath.Base of an entry: the name Readdirnames lists.
Base(p) ==
    <<p.base>>
    \o (IF p.stamp = NoStamp THEN <<>> ELSE <<".">> \o StampString(p.stamp))
    \o (IF p.gz THEN GzExt ELSE <<>>)

\* d.Readdirnames(-1) of dir: its entries.
Readdirnames(dir) == {fn \in DOMAIN fs : fn.dir = dir}

\* A pattern without the extension: [0-9]{N}.
SweepMatchAnyDigits(fn) == FindDigits(Base(fn), LayoutLen(suffixFormat))

\* rx.FindString(fn) for the pattern [0-9]{N}\.gz, and the match with its
\* ".gz" replaced by "".
SweepMatch(fn) == FindDigitsGz(Base(fn), LayoutLen(suffixFormat))
SweepStamp(fn) ==
    LET m == SweepMatch(fn) IN SubSeq(m, 1, Len(m) - Len(GzExt))

\* now.Sub(wt): time.ParseInLocation returns the zero Time with its error,
\* and the distance from it saturates at the largest Duration.
Sub(t, wt) == IF wt.ok THEN t - wt.t ELSE MaxDuration

\* isOverdue(ts) of part_001 at time t: the parse error is reported through
\* l.Error and the comparison goes on.
isOverdue1(t, ts) == Sub(t, Parse(suffixFormat, ts)) > Window

\* The entries one deleteOverdue removes at time t.
SweepRemoves(t) ==
    {fn \in Readdirnames(Dir(PathString(fileName))) :
       SweepMatch(fn) # <<>> /\ isOverdue1(t, SweepStamp(fn))}

\* The entries whose stamp one deleteOverdue reports through l.Error.
SweepReports ==
    {fn \in Readdirnames(Dir(PathString(fileName))) :
       SweepMatch(fn) # <<>> /\ ~Parse(suffixFormat, SweepStamp(fn)).ok}

\* go l.deleteOverdue(): one detached sweep runs.
deleteOverdue ==
    /\ sweeps > 0
    /\ sweeps' = sweeps - 1
    /\ fs' = IF fileName = NoPath \/ suffixFormat = "" THEN fs
             ELSE Remove(fs, SweepRemoves(now))
    /\ UNCHANGED <<logging, now, files, fileName, cfg, suffixFormat, out, mu, opens,
                   lastSuffix, fd, compressing, calls, gos, part0>>

-----------------------------------------------------------------------------
(* src/unnamed/part_001 as a whole.  The Logger has had SetOutputByName    *)
(* and SetLogParam a second before the run starts.                         *)

InitPart1(n) ==
    /\ now = T0
    /\ fileName = PlainPath
    /\ cfg \in Configs
    /\ fs \in InitDirs(fileName)
    /\ files = <<[ino |-> 1, closed |-> FALSE]>>
    /\ suffixFormat = SetLogParamLayout(cfg.Duration, "")
    /\ out = 1
    /\ mu = Free
    /\ opens = n
    /\ lastSuffix = Stamp(T0 - 1, SetLogParamLayout(cfg.Duration, ""))
    /\ fd = 1
    /\ compressing = 0
    /\ calls = [p \in Rotors |-> IdleCall1]
    /\ gos = [g \in JobIds |-> NoGo]
    /\ sweeps = 0
    /\ NoPart0
    /\ NoLogging

\* Several goroutines call rotate() at once.
InitRotate == InitPart1(EngineOpens)

NextRotate ==
    \/ Tick
    \/ \E p \in Rotors : rotate(p)
    \/ \E g \in JobIds : compress1(g)
    \/ deleteOverdue

SpecRotate == InitRotate /\ [][NextRotate]_vars

\* One goroutine calls rotate(): the calls follow one another.
Rotor1 == <<"rotor", 1>>

NextRotateSeq ==
    \/ Tick
    \/ rotate(Rotor1)
    \/ \E g \in JobIds : compress1(g)
    \/ deleteOverdue

InitRotateSeq == InitPart1(MaxOpens)

SpecRotateSeq == InitRotateSeq /\ [][NextRotateSeq]_vars

\* The same, where a compress goroutine that can take a step takes one: the
\* scheduler runs every goroutine, and the calls compress makes return.
SpecCompress == SpecRotateSeq /\ \A g \in JobIds : WF_vars(compress1(g))

\* One goroutine calls rotate() on a Logger that compresses its archives,
\* and the clock may move by more than Duration x Rotate at once: a compress
\* job may still run when the archive it reads has become overdue.
InitSweep ==
    /\ now = T0
    /\ fileName = PlainPath
    /\ cfg \in {c \in Configs : c.Compress}
    /\ fs \in InitDirs(fileName)
    /\ files = <<[ino |-> 1, closed |-> FALSE]>>
    /\ suffixFormat = SetLogParamLayout(cfg.Duration, "")
    /\ out = 1
    /\ mu = Free
    /\ opens = MaxOpens
    /\ lastSuffix = Stamp(T0 - 1, SetLogParamLayout(cfg.Duration, ""))
    /\ fd = 1
    /\ compressing = 0
    /\ calls = [p \in Rotors |-> IdleCall1]
    /\ gos = [g \in JobIds |-> NoGo]
    /\ sweeps = 0
    /\ NoPart0
    /\ NoLogging

\* time.Now() is later by more than Duration x Rotate.
SleepLong ==
    /\ now <= T0 + MaxTicks
    /\ now' = now + Window + 1
    /\ UNCHANGED <<logging, fs, files, fileName, cfg, suffixFormat, out, mu, opens,
                   part0, part1>>

NextSweep ==
    \/ Tick
    \/ SleepLong
    \/ rotate(Rotor1)
    \/ \E g \in JobIds : compress1(g)
    \/ deleteOverdue

SpecSweep == InitSweep /\ [][NextSweep]_vars


\* The Durations SetLogParam is called with: none, the four it names, and
\* two it does not name.
ParamDurations == {0, 1, 2, 60, 90, 60 * 60, 24 * 60 * 60}

\* New(): param: &LogParam{0, 0, false}.
ZeroParam == [Rotate |-> 0, Duration |-> 0, Compress |-> FALSE]

\* SetLogParam(param): l.param = param; the layout the Duration names, if it
\* names one; the first label, if there is none yet.  go l.doRotate() is
\* the rotate() calls that follow.
SetLogParam(d) ==
    /\ cfg # [Rotate |-> TestRotate, Duration |-> d, Compress |-> FALSE]
    /\ cfg' = [Rotate |-> TestRotate, Duration |-> d, Compress |-> FALSE]
    /\ suffixFormat' = SetLogParamLayout(d, suffixFormat)
    /\ lastSuffix' = IF lastSuffix = NoStamp THEN Stamp(now, suffixFormat')
                     ELSE lastSuffix
    /\ UNCHANGED <<logging, now, fs, files, fileName, out, mu, opens,
                   fd, compressing, calls, gos, sweeps, part0>>

\* New(), then SetOutputByName(path).
InitParam ==
    /\ now = T0
    /\ fileName = PlainPath
    /\ cfg = ZeroParam
    /\ fs \in InitDirs(fileName)
    /\ files = <<[ino |-> 1, closed |-> FALSE]>>
    /\ suffixFormat = ""
    /\ out = 1
    /\ mu = Free
    /\ opens = EngineOpens
    /\ lastSuffix = NoStamp
    /\ fd = 1
    /\ compressing = 0
    /\ calls = [p \in Rotors |-> IdleCall1]
    /\ gos = [g \in JobIds |-> NoGo]
    /\ sweeps = 0
    /\ NoPart0
    /\ NoLogging

NextParam ==
    \/ Tick
    \/ \E d \in ParamDurations : SetLogParam(d)
    \/ rotate(Rotor1)
    \/ deleteOverdue

SpecParam == InitParam /\ [][NextParam]_vars

-----------------------------------------------------------------------------
(* src/unnamed/part_000: the revision of src/log.go whose cleanOldLogs     *)
(* reads the directory's names and chooses its pattern by the Compress     *)
(* flag.  Its Rotate and compress are those of src/log.go.                 *)

\* rx.FindString(fn) for [0-9]{N}\.gz if Compress, for [0-9]{N} otherwise.
CleanMatch0(fn) ==
    IF cfg.Compress THEN FindDigitsGz(Base(fn), LayoutLen(suffixFormat))
    ELSE FindDigits(Base(fn), LayoutLen(suffixFormat))

\* The match, its ".gz" replaced by "" if Compress.
CleanStamp0(fn) ==
    LET m == CleanMatch0(fn)
    IN IF cfg.Compress THEN SubSeq(m, 1, Len(m) - Len(GzExt)) ELSE m

\* The entries one cleanOldLogs of part_000 removes at time t.
CleanRemoves0(t) ==
    {fn \in Readdirnames(Dir(PathString(fileName))) :
       CleanMatch0(fn) # <<>> /\ isOverdue(t, CleanStamp0(fn))}

\* cleanOldLogs(fileName) of part_000: isOverdue reads time.Now() itself.
cleanOldLogs0(j) ==
    /\ jobs[j].pc = "clean"
    /\ fs' = Remove(fs, CleanRemoves0(now))
    /\ jobs' = [jobs EXCEPT ![j] = FreeJob]
    /\ UNCHANGED <<logging, now, files, fileName, cfg, suffixFormat, w, out, mu, rot,
                   opens, sched, part1>>

\* New(f, prefix, flag, level, cfg) of part_000 with Compress set.
InitClean0 ==
    /\ now = T0
    /\ fileName = PlainPath
    /\ cfg \in {c \in Configs : c.Compress}
    /\ fs \in InitDirs(fileName)
    /\ files = <<[ino |-> 1, closed |-> FALSE]>>
    /\ suffixFormat = ""
    /\ w = 1
    /\ out = 1
    /\ mu = Free
    /\ rot = [p \in Callers \cup Loops |-> IdleCall]
    /\ jobs = [j \in JobIds |-> FreeJob]
    /\ opens = MaxOpens
    /\ rotateCh = NoChan
    /\ chans = <<>>
    /\ loop = [l \in Loops |-> OffLoop]
    /\ wr = [x \in Writers |-> IdleWriter]
    /\ ctl = [s \in Controllers |-> IdleCtl]
    /\ NoPart1
    /\ NoLogging

NextClean0 ==
    \/ Tick
    \/ SleepLong
    \/ CallRotate(Caller1)
    \/ Rotate(Caller1)
    \/ \E j \in JobIds : compress(j)
    \/ \E j \in JobIds : cleanOldLogs0(j)

\* A Logger of either revision that compresses its archives: part_001's has
\* l.fd, part_000's has l.w.
InitArchives == InitSweep \/ InitClean0

NextArchives ==
    \/ fd # NoFile /\ NextSweep
    \/ w # NoFile /\ NextClean0

SpecArchives == InitArchives /\ [][NextArchives]_vars

-----------------------------------------------------------------------------
(* The claims.                                                             *)

\* C1: once Stop() was called (l.rotateCh is nil), a loop that has observed
\* the stop signal has exited: it is not waiting in another select for the
\* next bucket boundary.
C1_StoppedLoopExits ==
    \A l \in Loops :
        (rotateCh = NoChan /\ loop[l].sawStop) => loop[l].pc # "select"

\* C2: no write is issued to a handle Rotate() has closed: the handle a
\* writer took under the mutex is open when it writes to it.
C2_NoWriteToClosedHandle ==
    \A x \in Writers : wr[x].pc = "write" => ~files[wr[x].h].closed

\* C5: an archive <file>.<label> a rotation made is never replaced: while
\* the name exists it names the same file, whoever rotates.
C5_ArchiveNeverReplaced ==
    [][\A n \in DOMAIN fs :
         (n.stamp # NoStamp /\ n \in DOMAIN fs') => fs'[n] = fs[n]]_vars

\* compress returns in this step.
CompressReturns(j) == jobs[j].pc = "defer" /\ jobs'[j].pc = "clean"

\* C7: compress(path) removes the raw archive only if every step succeeded
\* (open, create, copy, flush and close of the gzip writer, close of the
\* output file): when a step failed, the raw archive that was there is
\* still there when compress returns.
C7_RawKeptOnAnyFailure ==
    [][\A j \in JobIds :
         (CompressReturns(j) /\ jobs'[j].failed # {} /\ Exists(jobs[j].path))
            => jobs[j].path \in DOMAIN fs']_vars

\* A sweep runs in this step.
Sweeps(j) == jobs[j].pc = "clean" /\ jobs'[j].pc = "free"

\* The archives of file: <file>.<suffix>, with or without .gz.
IsArchiveOf(n, file) ==
    n.dir = file.dir /\ n.base = file.base /\ n.stamp # NoStamp

\* The archives of the active file whose suffix parses to a time older than
\* the retention window at t.
OverdueArchives(t) ==
    {n \in DOMAIN fs :
       /\ IsArchiveOf(n, fileName)
       /\ LET ts == Parse(suffixFormat, StampString(n.stamp))
          IN ts.ok /\ t - ts.t > Window}

\* C8: cleanOldLogs(now, fileName) deletes exactly the archives of fileName
\* whose suffix parses to a time ts with now - ts > Duration x Rotate; every
\* other entry of the directory is still there after the sweep.
C8_SweepRemovesExactlyTheOverdue ==
    [][\A j \in JobIds :
         Sweeps(j) => DOMAIN fs' = DOMAIN fs \ OverdueArchives(jobs[j].now)]_vars

\* C9: whatever digits the active file's path holds, the active file is not
\* matched by the sweep's pattern and is not removed by cleanOldLogs.
C9_ActiveFileNeverSwept ==
    [][\A j \in JobIds :
         Sweeps(j) => /\ CleanMatch(fileName) = <<>>
                      /\ Exists(fileName) => fileName \in DOMAIN fs']_vars

\* A rotate() call between its rename and its return.
InSequence(p) == calls[p].pc \in {"open", "setout", "setfd", "finish"}

\* C3: the rotations of one Logger are serialized: no two rotate() calls are
\* inside their rename-reopen-swap sequence at once (so one rename is made
\* and the other call takes the equal-label path).
C3_RotationsSerialized ==
    \A p, q \in Rotors : p # q => ~(InSequence(p) /\ InSequence(q))

\* The caller begins a rotate() call in this step, the call before it having
\* computed the label the clock yields now.
SecondCallInBucket(p) ==
    /\ calls[p].pc = "idle"
    /\ calls[p].ret # "none"
    /\ calls[p].suffix = genSuffixStr(now)
    /\ calls' # calls

\* The call is over in this step: it returns nil, and nothing is renamed,
\* opened, created, swapped, stored or spawned.
NoopCall(p) ==
    /\ calls'[p] = Noop(calls[p].suffix)
    /\ UNCHANGED <<fs, files, out, fd, lastSuffix, gos, sweeps>>

\* The last call went past the label guard and did not reopen the file: its
\* rename or its open failed.
Failed(p) == calls[p].nf # NoPath /\ calls[p].newFd = NoFile

\* C4 as stated: of two successive rotate() calls in one bucket the second
\* returns nil without a rename, an open, a new file, a change of fd or
\* lastSuffix, or a spawned job, whatever the first call did.
C4_SecondCallIsNoop ==
    [][SecondCallInBucket(Rotor1) => NoopCall(Rotor1)]_vars

\* C4, amended: the second of two successive rotate() calls in one bucket is
\* such a no-op when the first call did not fail at its rename or its open
\* (it took a no-op path itself, or it completed the rotation).
C4_SecondCallIsNoopAfterSuccess ==
    [][(SecondCallInBucket(Rotor1) /\ ~Failed(Rotor1)) => NoopCall(Rotor1)]_vars

\* A rotation was completed in this bucket and the call after it was a no-op.
C4_Witness ==
    /\ calls[Rotor1] = Noop(lastSuffix)
    /\ lastSuffix = genSuffixStr(now)
    /\ fd # 1

\* A compress goroutine past the single-flight guard and not yet returned.
PastGuard(g) == gos[g].pc \in {"open", "create", "copy", "defer", "release"}

\* C6: at most one compress() of part_001 is past the single-flight guard at
\* any instant, and a compress() that reaches the guard while another is in
\* flight returns at once: no file is opened, created, written or removed.
C6_SingleFlight ==
    /\ [](Cardinality({g \in JobIds : PastGuard(g)}) <= 1)
    /\ [][\A g \in JobIds :
            (/\ gos[g].pc = "cas"
             /\ gos'[g] # gos[g]
             /\ \E k \in JobIds : PastGuard(k))
            => gos'[g].pc = "skipped" /\ UNCHANGED <<fs, files, compressing>>]_vars

\* One compress is in flight and another was turned away.
C6_Witness ==
    \E g, k \in JobIds : PastGuard(g) /\ gos[k].pc = "skipped"

\* C10: an entry that matches the sweep pattern and whose digits do not
\* parse in suffixFormat is reported by deleteOverdue and is still there
\* after the sweep.
C10_UnparsableKept ==
    [][sweeps' = sweeps - 1 =>
         \A fn \in SweepReports : fn \in DOMAIN fs']_vars

\* The rename of this Rotate() fails in this step.
RenameFails(p) == rot[p].pc = "rename" /\ rot'[p].pc = "idle"

\* C11: when os.Rename fails in Rotate(), Rotate() returns a non-nil error
\* and has changed nothing: the output is the open handle the call found,
\* no file is opened, no handle closed, no name changed and no job spawned.
C11_RenameFailureLeavesState ==
    /\ [](rot[Caller1].pc = "rename" =>
            /\ out = rot[Caller1].fd
            /\ w = rot[Caller1].fd
            /\ ~files[out].closed)
    /\ [][RenameFails(Caller1) =>
            /\ rot'[Caller1].ret \notin {"none", "nil"}
            /\ UNCHANGED <<out, w, files, fs, jobs>>]_vars

\* A Rotate() has returned the rename's error, the output still open.
C11_Witness ==
    /\ rot[Caller1].ret = "rename fail"
    /\ out = w
    /\ ~files[out].closed

\* The reopen of this rotate() fails in this step.
OpenFails(p) == calls[p].pc = "open" /\ calls'[p].pc = "idle"

\* C12: when rotate() of part_001 has renamed the active file and fails to
\* reopen it, it returns a non-nil error whether or not the rename back
\* succeeded, and fd, the output and lastSuffix are as before the call.
C12_ReopenFailureReported ==
    [][OpenFails(Rotor1) =>
         /\ calls'[Rotor1].ret \notin {"none", "nil"}
         /\ UNCHANGED <<fd, out, lastSuffix>>]_vars

\* The RotateConfig is nil, or has Rotate <= 0, or Duration < 1 second.
Invalid == cfg = NoConfig \/ cfg.Rotate <= 0 \/ cfg.Duration < 1

\* The goroutine calls StartRotate() in this step.
StartRotateCalled(s) ==
    ctl[s].pc = "idle" /\ ctl'[s] # ctl[s] /\ ctl'[s].op = "StartRotate"

\* C13: StartRotate() on an invalid RotateConfig returns
\* errInvalidRotateConfig and changes nothing: no loop is started, and the
\* stop channel and the loops that run are as they were.
C13_InvalidConfigRejected ==
    [][\A s \in Controllers :
         (StartRotateCalled(s) /\ Invalid) =>
            /\ ctl'[s].pc = "idle"
            /\ ctl'[s].ret = "errInvalidRotateConfig"
            /\ UNCHANGED <<rotateCh, chans, loop, rot>>]_vars

\* StartRotate() was rejected while a loop runs on an open channel.
C13_Witness ==
    /\ ctl[Controller1].ret = "errInvalidRotateConfig"
    /\ Invalid
    /\ rotateCh # NoChan
    /\ \E l \in DOMAIN loop : loop[l].pc # "off"

\* A loop that waits for its next boundary with no stop signal pending.
Waiting(l) ==
    loop[l].pc = "select" /\ (loop[l].ch = NoChan \/ ~chans[loop[l].ch])

\* C14: whatever StartRotate() and Stop() calls were made, at most one
\* rotation loop is alive: no two loops wait for their next boundary with no
\* stop signal pending.
C14_AtMostOneLoop ==
    Cardinality({l \in DOMAIN loop : Waiting(l)}) <= 1

\* C15: Stop() never closes a closed (or nil) channel, whatever runs beside
\* it: no call of Stop() or StartRotate() panics in closeChannel().
C15_StopNeverPanics ==
    \A s \in Controllers : ctl[s].pc # "panic"

\* The start of the D-bucket of t, D the configured Duration.
Bucket(t) == Truncate(t, cfg.Duration)

\* a precedes b in lexical order (digit strings of one length).
LexLess(a, b) ==
    \E i \in 1..Len(a) :
        /\ \A k \in 1..(i - 1) : a[k] = b[k]
        /\ DigitVal(a[i]) < DigitVal(b[i])

\* C16: the suffix Rotate() derived at an instant t1 and the one it derives
\* now: one bucket gives one suffix; a later bucket gives a lexically
\* greater suffix; and the suffix parses back, in its format, to an instant
\* of the bucket it was derived from.
C16_SuffixProperties ==
    rot[Caller1].pc = "rename" =>
        LET t1 == rot[Caller1].now
            s1 == StampString(rot[Caller1].target.stamp)
            s2 == StampString(RotateSuffix(now))
            back == Parse(suffixFormat, s1)
        IN /\ Bucket(t1) = Bucket(now) => s1 = s2
           /\ Bucket(t1) < Bucket(now) => LexLess(s1, s2)
           /\ back.ok
           /\ Bucket(back.t) = Bucket(t1)

\* The fixed tag of a level.
FixedTag(l) ==
    CASE l = 0 -> "[Debug] " [] l = 1 -> "[Info] " [] l = 2 -> "[Notice] "
      [] l = 3 -> "[Warning] " [] l = 4 -> "[Error] " [] l = 5 -> "[Critical] "

\* A level method has been called and has returned.
Logged == lg'.n = lg.n + 1

\* C17: a call at level L with minimum level M writes exactly one record,
\* whose message begins with the tag of L, if L >= M, and writes nothing if
\* L < M.
C17_LevelFilter ==
    [][Logged =>
        IF lg'.level >= Level
        THEN /\ Len(records') = Len(records) + 1
             /\ SubSeq(records', 1, Len(records)) = records
             /\ Head(records'[Len(records')]) = FixedTag(lg'.level)
        ELSE records' = records]_vars

\* With the minimum at Warning, a Warning call has written its record and a
\* Notice call after it has written nothing.
C17_Witness ==
    /\ Level = LevelWarning
    /\ lg.n = 2
    /\ lg.level = LevelNotice
    /\ records = <<Sprint(tagWarning, Sprintf)>>

\* The compress job g has created its .gz, which is in the directory, and
\* is copying into it.
WritingGz(g) == gos[g].pc = "copy" /\ GzName(gos[g].path) \in DOMAIN fs

\* A rotation later than the one that spawned job g has stored its label
\* and spawned its sweep.
RotatedSince(g) == lastSuffix.t > gos[g].path.stamp.t

\* One deleteOverdue runs.
SweepRuns == sweeps' = sweeps - 1

\* C18: a sweep that a later rotation spawned never removes the .gz a
\* compress job in flight is writing.
C18_SweepSparesGzInFlight ==
    [][\A g \in JobIds :
         (WritingGz(g) /\ RotatedSince(g) /\ SweepRuns) =>
             GzName(gos[g].path) \in DOMAIN fs']_vars

\* The format a Duration calls for: the coarsest it matches exactly, the
\* second-level format otherwise.
FormatFor(d) ==
    IF d = 24 * 60 * 60 THEN "20060102"
    ELSE IF d = 60 * 60 THEN "2006010215"
    ELSE IF d = 60 THEN "200601021504"
    ELSE "20060102150405"

\* C19: after SetLogParam with a positive Duration, whatever calls came
\* before, the suffix format is the one that Duration calls for, and so is
\* never empty.
C19_FormatFollowsDuration ==
    cfg.Duration > 0 => suffixFormat = FormatFor(cfg.Duration)

\* The archives of the active file in its directory whose stamp is of the
\* current format: the raw ones, or the compressed ones.
ArchivesByFlag(gz) ==
    {fn \in DOMAIN fs :
       /\ fn.dir = fileName.dir
       /\ fn.base = fileName.base
       /\ fn.stamp.layout = suffixFormat
       /\ fn.gz = gz}

\* One deleteOverdue runs on a Logger that has a file and a format.
SweepWorks == sweeps' = sweeps - 1 /\ fileName # NoPath /\ suffixFormat # ""

\* C20: a sweep removes every archive older than Duration x Rotate among
\* those the compress flag names: the raw archives when Compress is false,
\* the .gz archives when it is true.
C20_SweepPatternFollowsFlag ==
    [][SweepWorks =>
         \A fn \in ArchivesByFlag(cfg.Compress) :
             now - fn.stamp.t > Window => fn \notin DOMAIN fs']_vars

\* One sweep runs: a deleteOverdue of part_001, or a cleanOldLogs of
\* part_000.
SweepStep ==
    \/ sweeps' = sweeps - 1
    \/ \E j \in JobIds : jobs[j].pc = "clean" /\ jobs'[j] = FreeJob

\* C21: with Compress set, a sweep of either revision removes no entry
\* without the .gz extension: a raw archive stays, however old.
C21_SweepKeepsRawArchives ==
    [][(SweepStep /\ cfg.Compress) =>
         \A fn \in DOMAIN fs : ~fn.gz => fn \in DOMAIN fs']_vars

\* A compress job of part_001 failed and left its raw archive; a rotation
\* that began after the archive became overdue has finished and every sweep
\* has run; the raw archive is still there.
C21_Witness ==
    /\ cfg.Compress
    /\ sweeps = 0
    /\ \E g \in JobIds :
          /\ gos[g].pc = "done"
          /\ ~gos[g].suc
          /\ gos[g].path \in DOMAIN fs
          /\ lastSuffix.t > gos[g].path.stamp.t + Window

\* The compress job g has taken the flag and has not given it back.
InBody(g) == gos[g].pc \in {"open", "create", "copy", "defer", "release"}

\* The compress job g returns: it was skipped, or its last defer has run.
Returns(g) ==
    /\ gos[g].pc \in {"cas", "release"}
    /\ gos'[g].pc \in {"skipped", "done"}

\* The compress job g reaches the guard while no job holds the flag.
GuardAfterReturn(g) ==
    /\ gos[g].pc = "cas"
    /\ gos'[g].pc # "cas"
    /\ \A k \in JobIds : ~InBody(k)

\* C22: the flag is 1 exactly while one compress job is in its body; a job
\* that returns, by whichever path, leaves no flag it took behind; a job in
\* its body releases the flag in the end; and a job that reaches the guard
\* when the job before it has returned is not skipped.
C22_FlagFollowsJob ==
    /\ [](compressing = Cardinality({g \in JobIds : InBody(g)}))
    /\ [](compressing \in {0, 1})
    /\ [][\A g \in JobIds :
            /\ (InBody(g) /\ Returns(g)) => compressing' = 0
            /\ GuardAfterReturn(g) => gos'[g].pc = "open"]_vars
    /\ \A g \in JobIds : InBody(g) ~> (gos[g].pc = "done" /\ compressing = 0)

\* A job failed and returned, the flag was released, and the job of a later
\* rotation has taken it.
C22_Witness ==
    \E g, k \in JobIds :
        /\ gos[g].pc = "done"
        /\ ~gos[g].suc
        /\ InBody(k)
        /\ compressing = 1

=============================================================================
